---------------------------- MODULE Spec2Model ----------------------------
(***************************************************************************)
(* A model of RainMyth (src/RainMyth/main.cpp): the Raindrop, RainSystem   *)
(* and Person classes and the frame loop of main.                          *)
(*                                                                         *)
(* Arithmetic.  The program computes in float; the model computes exactly  *)
(* on a fixed-point grid, and the inputs it draws are values for which the *)
(* program's quotients and square roots are exact on that grid:            *)
(*   time        ticks of 1/TicksPerSecond s                               *)
(*   rain        positions and sizes in sub-pixels, 1/SubPx px             *)
(*   velocity    sub-pixels per tick                                       *)
(*   actor       positions in whole pixels                                 *)
(*   area        square sub-pixels (wetness is a sum of areas)             *)
(* With 10 ticks per second GRAVITY*dt*dt is a whole number of sub-pixels  *)
(* and WALK_SPEED*dt, RUN_SPEED*dt are whole numbers of pixels.            *)
(*                                                                         *)
(* The std::vector of drops is a bag: the program reads its order only     *)
(* when it draws.                                                          *)
(***************************************************************************)
EXTENDS Integers, Sequences, FiniteSets, Bags, TLC

VARIABLES
    windowSize,     \* main: sf::Vector2u windowSize, <<width, height>> in px
    windowOpen,     \* main: window.isOpen()
    pc,             \* main: the position in the frame loop
    deltaTime,      \* main: float deltaTime of the frame, in ticks
    drops,          \* RainSystem::drops, a bag of Raindrop records
    person,         \* the Person object
    frame,          \* frames started so far
    keyEvents,      \* events handled so far
    handled,        \* the key codes handled in the current frame, in order
    lastOp,         \* history: the last operation applied to person or drops
    before,         \* history: person at the entry of the last Person call
    arg,            \* history: the arguments of the last Person call
    dropsBefore,    \* history: drops at the entry of the last RainSystem::update
    wetBefore       \* history: totalWetness at the entry of the last collision pass

vars == <<windowSize, windowOpen, pc, deltaTime, drops, person, frame,
          keyEvents, handled, lastOp, before, arg, dropsBefore, wetBefore>>

---------------------------------------------------------------------------
(* Units *)

TicksPerSecond == 10
SubPx == TicksPerSecond * TicksPerSecond
AreaUnit == SubPx * SubPx

(* Program constants, lines 12-20: px/s^2, sub-pixels (0.5 px and 1.5 px),  *)
(* drops per frame, px/s, px, and px^2 for MAX_WETNESS                     *)
GRAVITY == 981
RAINDROP_MIN_SIZE == 50
RAINDROP_MAX_SIZE == 150
RAINDROP_SPAWN_RATE == 175
WALK_SPEED == 50
RUN_SPEED == 200
PERSON_WIDTH == 40
PERSON_HEIGHT == 100
MAX_WETNESS == 1000

(* Bounds of the model *)
MaxFrames == 4
MaxKeyEvents == 2
MaxAdds == 2
MaxSteps == 6

---------------------------------------------------------------------------
(* Input sets *)

\* Frame times in ticks: 0 s, 0.2 s, 0.4 s.
FrameTimes == {0, 2, 4}

\* Desktop sizes read at start-up.
ViewportSizes == {<<640, 480>>}

Min(a, b) == IF a < b THEN a ELSE b
Max(a, b) == IF a > b THEN a ELSE b

---------------------------------------------------------------------------
(* Raindrop *)

\* Raindrop::Raindrop with the three random draws as parameters
Raindrop(x, y, size) ==
    [x |-> x, y |-> y, size |-> size, vx |-> 0, vy |-> 0]

\* Mutant: an update that moves the drop before it applies gravity
RaindropUpdate_MoveFirst(d, dt) ==
    [d EXCEPT !.vy = d.vy + GRAVITY * dt, !.x = d.x + d.vx * dt, !.y = d.y + d.vy * dt]

\* Mutant: an update with gravity pointing up the screen
RaindropUpdate_Up(d, dt) ==
    LET vy2 == d.vy - GRAVITY * dt
    IN  [d EXCEPT !.vy = vy2, !.x = d.x + d.vx * dt, !.y = d.y + vy2 * dt]

RaindropUpdate(d, dt) ==
    LET vy2 == d.vy + GRAVITY * dt
    IN  [d EXCEPT !.vy = vy2, !.x = d.x + d.vx * dt, !.y = d.y + vy2 * dt]

\* Mutant: isOffScreen that compares with the window's width
IsOffScreen_Width(d, ws) == d.y > ws[1] * SubPx

IsOffScreen(d, ws) == d.y > ws[2] * SubPx

\* Mutant: isOnPlatty that knows the start platform only
IsOnPlatty_StartOnly(d, ws) ==
    IF d.x > (ws[1] * SubPx) \div 8 - 100 * SubPx /\ d.x < (ws[1] * SubPx) \div 8 + 100 * SubPx
    THEN IF d.y > (ws[2] - 250 - 25) * SubPx /\ d.y < (ws[2] - 250 + 25) * SubPx
         THEN TRUE
         ELSE FALSE
    ELSE FALSE

IsOnPlatty(d, ws) ==
    IF d.x > (ws[1] * SubPx) \div 8 - 100 * SubPx /\ d.x < (ws[1] * SubPx) \div 8 + 100 * SubPx
    THEN IF d.y > (ws[2] - 250 - 25) * SubPx /\ d.y < (ws[2] - 250 + 25) * SubPx
         THEN TRUE
         ELSE FALSE
    ELSE IF d.x > (ws[1] * 7 * SubPx) \div 8 - 100 * SubPx
            /\ d.x < (ws[1] * 7 * SubPx) \div 8 + 100 * SubPx
         THEN IF d.y > (ws[2] - 250 - 25) * SubPx /\ d.y < (ws[2] - 250 + 25) * SubPx
              THEN TRUE
              ELSE FALSE
         ELSE FALSE

\* Mutant: getArea that squares the width
GetArea_Square(d) == d.size * d.size

GetArea(d) == d.size * (d.size * 2)

DropBounds(d) ==
    [left |-> d.x, top |-> d.y, width |-> d.size, height |-> d.size * 2]

---------------------------------------------------------------------------
(* RainSystem *)

RECURSIVE SumCounts(_, _)
\* The number of elements of bag b that lie in the set S of kinds
SumCounts(b, S) ==
    IF S = {} THEN 0
    ELSE LET d == CHOOSE e \in S : TRUE
         IN  b[d] + SumCounts(b, S \ {d})

Size(b) == SumCounts(b, DOMAIN b)

\* for (auto& drop : drops) drop.update(deltaTime)
UpdateAll(b, dt) ==
    LET img == {RaindropUpdate(d, dt) : d \in DOMAIN b}
    IN  [e \in img |-> SumCounts(b, {d \in DOMAIN b : RaindropUpdate(d, dt) = e})]

\* drops.erase(remove_if(..., isOffScreen), drops.end())
EraseOffScreen(b, ws) ==
    [d \in {e \in DOMAIN b : ~IsOffScreen(e, ws)} |-> b[d]]

\* drops.erase(remove_if(..., isOnPlatty), drops.end())
EraseOnPlatty(b, ws) ==
    [d \in {e \in DOMAIN b : ~IsOnPlatty(e, ws)} |-> b[d]]

\* for (i = 0; i < RAINDROP_SPAWN_RATE; ++i) drops.emplace_back(windowSize),
\* the drops constructed being the bag batch
\* Mutant: a spawn loop that stops at a population cap
SpawnAll_Capped(b, batch) ==
    IF Size(b) < 2 * RAINDROP_SPAWN_RATE THEN b (+) batch ELSE b

SpawnAll(b, batch) == b (+) batch

\* Mutant: an update that removes drops before it moves them
RainSystemUpdate_CullFirst(b, dt, batch, ws) ==
    SpawnAll(UpdateAll(EraseOnPlatty(EraseOffScreen(b, ws), ws), dt), batch)

RainSystemUpdate(b, dt, batch, ws) ==
    SpawnAll(EraseOnPlatty(EraseOffScreen(UpdateAll(b, dt), ws), ws), batch)

\* What the constructor's three uniform draws can give, in sub-pixels:
\* x in [0, width), y in [-100, -50), size in [0.5, 1.5]
CanSpawn(d, ws) ==
    /\ d.x >= 0 /\ d.x < ws[1] * SubPx
    /\ d.y >= -100 * SubPx /\ d.y < -50 * SubPx
    /\ d.size >= RAINDROP_MIN_SIZE /\ d.size <= RAINDROP_MAX_SIZE
    /\ d.vx = 0 /\ d.vy = 0

\* The drops the spawn loop constructs in the model: over the start platform
\* and the actor's start position, large and high (HighDrop) or small and low
\* (LowDrop); mid-way between the platforms (MidDrop); over the end platform
\* (EndDrop).
HighDrop(ws) == Raindrop((ws[1] * SubPx) \div 8, -100 * SubPx, RAINDROP_MAX_SIZE)
LowDrop(ws) == Raindrop((ws[1] * SubPx) \div 8, -60 * SubPx, RAINDROP_MIN_SIZE)
MidDrop(ws) == Raindrop((ws[1] * SubPx) \div 2, -60 * SubPx, 2 * RAINDROP_MIN_SIZE)
EndDrop(ws) == Raindrop((ws[1] * 7 * SubPx) \div 8, -60 * SubPx, RAINDROP_MIN_SIZE)

\* One frame's RAINDROP_SPAWN_RATE constructions: half of one kind and half of
\* another, over the start platform or away from it.
SpawnBatches(ws) ==
    LET half == RAINDROP_SPAWN_RATE \div 2
    IN  { (HighDrop(ws) :> half) @@ (LowDrop(ws) :> RAINDROP_SPAWN_RATE - half),
          (MidDrop(ws) :> half) @@ (EndDrop(ws) :> RAINDROP_SPAWN_RATE - half) }

---------------------------------------------------------------------------
(* sf::Rect<float>::intersects, as the collision pass calls it (line 323) *)

Intersects(r1, r2) ==
    LET r1MinX == Min(r1.left, r1.left + r1.width)
        r1MaxX == Max(r1.left, r1.left + r1.width)
        r1MinY == Min(r1.top, r1.top + r1.height)
        r1MaxY == Max(r1.top, r1.top + r1.height)
        r2MinX == Min(r2.left, r2.left + r2.width)
        r2MaxX == Max(r2.left, r2.left + r2.width)
        r2MinY == Min(r2.top, r2.top + r2.height)
        r2MaxY == Max(r2.top, r2.top + r2.height)
        interLeft == Max(r1MinX, r2MinX)
        interTop == Max(r1MinY, r2MinY)
        interRight == Min(r1MaxX, r2MaxX)
        interBottom == Min(r1MaxY, r2MaxY)
    IN  interLeft < interRight /\ interTop < interBottom

---------------------------------------------------------------------------
(* Person *)

RECURSIVE SqrtBetween(_, _, _)
\* The largest r in lo..hi with r*r <= n
SqrtBetween(n, lo, hi) ==
    IF lo >= hi THEN lo
    ELSE LET m == (lo + hi + 1) \div 2
         IN  IF m * m <= n THEN SqrtBetween(n, m, hi) ELSE SqrtBetween(n, lo, m - 1)

\* std::sqrt on the pixel grid; exact when n is a square
Sqrt(n) == SqrtBetween(n, 0, Min(n, 40000))

\* Mutant: a blend factor that is not capped at 1
ColorOf_Unclamped(wetness) ==
    << 139 + ((wetness \div AreaUnit) * (173 - 139)) \div MAX_WETNESS,
       69 + ((wetness \div AreaUnit) * (216 - 69)) \div MAX_WETNESS,
       19 + ((wetness \div AreaUnit) * (230 - 19)) \div MAX_WETNESS >>

\* Mutant: a conversion to sf::Uint8 that rounds to the nearest value
ColorOf_Rounded(wetness) ==
    LET w == Min(wetness, MAX_WETNESS * AreaUnit)
        half == (MAX_WETNESS * AreaUnit) \div 2
    IN  << 139 + ((w \div 2) * (173 - 139) + half \div 2) \div half,
           69 + ((w \div 2) * (216 - 69) + half \div 2) \div half,
           19 + ((w \div 2) * (230 - 19) + half \div 2) \div half >>

\* sf::Color(r, g, b) from the wetness, static_cast<sf::Uint8> truncating
ColorOf(wetness) ==
    LET w == Min(wetness, MAX_WETNESS * AreaUnit)
    IN  << 139 + (w * (173 - 139)) \div (MAX_WETNESS * AreaUnit),
           69 + (w * (216 - 69)) \div (MAX_WETNESS * AreaUnit),
           19 + (w * (230 - 19)) \div (MAX_WETNESS * AreaUnit) >>

UpdateColor(p) == [p EXCEPT !.fillColor = ColorOf(p.totalWetness)]

\* Person::Person(position); targetPosition is default-constructed, (0, 0)
NewPerson(position) ==
    [position |-> position, targetPosition |-> <<0, 0>>, currentSpeed |-> 0,
     totalWetness |-> 0, isMoving |-> FALSE, fillColor |-> <<139, 69, 19>>]

\* Mutant: startMove without the isMoving test
StartMove_Retarget(p, target, speed) ==
    [p EXCEPT !.targetPosition = target, !.currentSpeed = speed, !.isMoving = TRUE]

StartMove(p, target, speed) ==
    IF ~p.isMoving
    THEN [p EXCEPT !.targetPosition = target, !.currentSpeed = speed, !.isMoving = TRUE]
    ELSE p

\* Mutant: reset that leaves isMoving as it was
Reset_KeepsMoving(p, position) ==
    UpdateColor([p EXCEPT !.totalWetness = 0, !.position = position])

Reset(p, position) ==
    UpdateColor([p EXCEPT !.totalWetness = 0, !.isMoving = FALSE, !.position = position])

\* Mutant: update that moves by the unnormalised direction
PersonUpdate_NoNormalize(p, dt) ==
    IF p.isMoving
    THEN LET direction == <<p.targetPosition[1] - p.position[1],
                            p.targetPosition[2] - p.position[2]>>
             distance == Sqrt(direction[1] * direction[1] + direction[2] * direction[2])
         IN  IF distance < 5
             THEN [p EXCEPT !.isMoving = FALSE, !.position = p.targetPosition]
             ELSE [p EXCEPT !.position =
                     << p.position[1] + (direction[1] * p.currentSpeed * dt) \div TicksPerSecond,
                        p.position[2] + (direction[2] * p.currentSpeed * dt) \div TicksPerSecond >>]
    ELSE p

\* Mutant: update that stops within the threshold without snapping to the target
PersonUpdate_NoSnap(p, dt) ==
    IF p.isMoving
    THEN LET direction == <<p.targetPosition[1] - p.position[1],
                            p.targetPosition[2] - p.position[2]>>
             distance == Sqrt(direction[1] * direction[1] + direction[2] * direction[2])
         IN  IF distance < 5
             THEN [p EXCEPT !.isMoving = FALSE]
             ELSE [p EXCEPT !.position =
                     << p.position[1] + (direction[1] * p.currentSpeed * dt)
                                           \div (distance * TicksPerSecond),
                        p.position[2] + (direction[2] * p.currentSpeed * dt)
                                           \div (distance * TicksPerSecond) >>]
    ELSE p

PersonUpdate(p, dt) ==
    IF p.isMoving
    THEN LET direction == <<p.targetPosition[1] - p.position[1],
                            p.targetPosition[2] - p.position[2]>>
             distance == Sqrt(direction[1] * direction[1] + direction[2] * direction[2])
         IN  IF distance < 5
             THEN [p EXCEPT !.isMoving = FALSE, !.position = p.targetPosition]
             ELSE [p EXCEPT !.position =
                     << p.position[1] + (direction[1] * p.currentSpeed * dt)
                                           \div (distance * TicksPerSecond),
                        p.position[2] + (direction[2] * p.currentSpeed * dt)
                                           \div (distance * TicksPerSecond) >>]
    ELSE p

\* Mutant: addWetness that clamps the accumulator at MAX_WETNESS
AddWetness_Clamped(p, area) ==
    [p EXCEPT !.totalWetness = Min(p.totalWetness + area, MAX_WETNESS * AreaUnit)]

AddWetness(p, area) == [p EXCEPT !.totalWetness = p.totalWetness + area]

\* shape.getGlobalBounds() of the 40 x 100 rectangle with its origin at its
\* centre, in sub-pixels
PersonBounds(p) ==
    [left |-> (p.position[1] - PERSON_WIDTH \div 2) * SubPx,
     top |-> (p.position[2] - PERSON_HEIGHT \div 2) * SubPx,
     width |-> PERSON_WIDTH * SubPx,
     height |-> PERSON_HEIGHT * SubPx]

---------------------------------------------------------------------------
(* main *)

\* startPlatform.getPosition(), endPlatform.getPosition(), in px
StartPlatformPosition(ws) == <<ws[1] \div 8, ws[2] - 250>>
EndPlatformPosition(ws) == <<(ws[1] * 7) \div 8, ws[2] - 250>>

\* getGlobalBounds() of a 200 x 50 platform with origin (100, 25), in sub-pixels
PlatformBounds(position) ==
    [left |-> (position[1] - 100) * SubPx, top |-> (position[2] - 25) * SubPx,
     width |-> 200 * SubPx, height |-> 50 * SubPx]

\* The position the key handlers reset to, and the target they start a move to
StartPosition(ws) == <<StartPlatformPosition(ws)[1], StartPlatformPosition(ws)[2] - 150>>
EndPosition(ws) == <<EndPlatformPosition(ws)[1], EndPlatformPosition(ws)[2] - 150>>

\* Person person(startPlatform.getPosition() - sf::Vector2f(0, -150))
InitialPosition(ws) == <<StartPlatformPosition(ws)[1], StartPlatformPosition(ws)[2] + 150>>

NoArg == [target |-> <<0, 0>>, speed |-> 0, position |-> <<0, 0>>, area |-> 0]

RECURSIVE CollideOver(_, _, _, _)
\* The loop of the collision pass over the kinds S of the bag b, personBounds
\* being read once before the loop.  The b[d] alike drops of kind d make b[d]
\* calls of addWetness(area), which add b[d] * area.
CollideOver(p, personBounds, b, S) ==
    IF S = {} THEN p
    ELSE LET d == CHOOSE e \in S : TRUE
             q == IF Intersects(personBounds, DropBounds(d))
                  THEN AddWetness(p, b[d] * GetArea(d))
                  ELSE p
         IN  CollideOver(q, personBounds, b, S \ {d})

CollisionPass(p, b) == CollideOver(p, PersonBounds(p), b, DOMAIN b)

\* Mutant: a frame body that runs the collision pass before person.update
StageAfter_CollideFirst(stage) ==
    CASE stage = "events" -> "rain"
      [] stage = "rain" -> "collide"
      [] stage = "collide" -> "person"
      [] stage = "person" -> "shelter"
      [] stage = "shelter" -> "render"
      [] stage = "render" -> "loop"

\* The statement that follows each statement of the frame body (lines 291-348)
StageAfter(stage) ==
    CASE stage = "events" -> "rain"
      [] stage = "rain" -> "person"
      [] stage = "person" -> "collide"
      [] stage = "collide" -> "shelter"
      [] stage = "shelter" -> "render"
      [] stage = "render" -> "loop"

Init ==
    /\ windowSize \in ViewportSizes
    /\ windowOpen = TRUE
    /\ pc = "font"
    /\ deltaTime = 0
    /\ drops = EmptyBag
    /\ person = NewPerson(InitialPosition(windowSize))
    /\ frame = 0
    /\ keyEvents = 0
    /\ handled = <<>>
    /\ lastOp = "Person"
    /\ before = NewPerson(InitialPosition(windowSize))
    /\ arg = NoArg
    /\ dropsBefore = EmptyBag
    /\ wetBefore = 0

\* font.loadFromFile succeeds
FontLoaded ==
    /\ pc = "font"
    /\ pc' = "loop"
    /\ UNCHANGED <<windowSize, windowOpen, deltaTime, drops, person, frame,
                   keyEvents, handled, lastOp, before, arg, dropsBefore, wetBefore>>

\* font.loadFromFile fails: return EXIT_FAILURE
FontMissing ==
    /\ pc = "font"
    /\ pc' = "failed"
    /\ UNCHANGED <<windowSize, windowOpen, deltaTime, drops, person, frame,
                   keyEvents, handled, lastOp, before, arg, dropsBefore, wetBefore>>

\* while (window.isOpen()) { deltaTime = clock.restart().asSeconds(); ...
FrameStart ==
    /\ pc = "loop"
    /\ windowOpen
    /\ frame < MaxFrames
    /\ \E dt \in FrameTimes : deltaTime' = dt
    /\ frame' = frame + 1
    /\ handled' = <<>>
    /\ pc' = "events"
    /\ UNCHANGED <<windowSize, windowOpen, drops, person, keyEvents, lastOp,
                   before, arg, dropsBefore, wetBefore>>

\* the loop ends: return 0
LoopExit ==
    /\ pc = "loop"
    /\ ~windowOpen
    /\ pc' = "exit"
    /\ UNCHANGED <<windowSize, windowOpen, deltaTime, drops, person, frame,
                   keyEvents, handled, lastOp, before, arg, dropsBefore, wetBefore>>

\* pollEvent gives Closed, or KeyPressed with Escape: window.close()
HandleClose ==
    /\ pc = "events"
    /\ windowOpen
    /\ keyEvents < MaxKeyEvents
    /\ windowOpen' = FALSE
    /\ keyEvents' = keyEvents + 1
    /\ handled' = Append(handled, "Close")
    /\ UNCHANGED <<windowSize, pc, deltaTime, drops, person, frame, lastOp,
                   before, arg, dropsBefore, wetBefore>>

\* Mutant: a key handler that starts the move without the reset
KeyHandler_NoReset(p, ws, speed) == StartMove(p, EndPosition(ws), speed)

\* What the W and R handlers do to the actor
KeyHandler(p, ws, speed) == StartMove(Reset(p, StartPosition(ws)), EndPosition(ws), speed)

\* pollEvent gives KeyPressed with W
HandleW ==
    /\ pc = "events"
    /\ windowOpen
    /\ keyEvents < MaxKeyEvents
    /\ person' = KeyHandler(person, windowSize, WALK_SPEED)
    /\ keyEvents' = keyEvents + 1
    /\ handled' = Append(handled, "W")
    /\ lastOp' = "W"
    /\ before' = person
    /\ arg' = [NoArg EXCEPT !.target = EndPosition(windowSize), !.speed = WALK_SPEED,
                            !.position = StartPosition(windowSize)]
    /\ UNCHANGED <<windowSize, windowOpen, pc, deltaTime, drops, frame,
                   dropsBefore, wetBefore>>

\* pollEvent gives KeyPressed with R
HandleR ==
    /\ pc = "events"
    /\ windowOpen
    /\ keyEvents < MaxKeyEvents
    /\ person' = KeyHandler(person, windowSize, RUN_SPEED)
    /\ keyEvents' = keyEvents + 1
    /\ handled' = Append(handled, "R")
    /\ lastOp' = "R"
    /\ before' = person
    /\ arg' = [NoArg EXCEPT !.target = EndPosition(windowSize), !.speed = RUN_SPEED,
                            !.position = StartPosition(windowSize)]
    /\ UNCHANGED <<windowSize, windowOpen, pc, deltaTime, drops, frame,
                   dropsBefore, wetBefore>>

\* pollEvent returns false
EventsDone ==
    /\ pc = "events"
    /\ pc' = StageAfter("events")
    /\ UNCHANGED <<windowSize, windowOpen, deltaTime, drops, person, frame,
                   keyEvents, handled, lastOp, before, arg, dropsBefore, wetBefore>>

\* rainSystem.update(deltaTime)
RainStep ==
    /\ pc = "rain"
    /\ \E batch \in SpawnBatches(windowSize) :
          /\ \A d \in DOMAIN batch : CanSpawn(d, windowSize)
          /\ Size(batch) = RAINDROP_SPAWN_RATE
          /\ drops' = RainSystemUpdate(drops, deltaTime, batch, windowSize)
    /\ dropsBefore' = drops
    /\ lastOp' = "RainSystem::update"
    /\ pc' = StageAfter("rain")
    /\ UNCHANGED <<windowSize, windowOpen, deltaTime, person, frame, keyEvents,
                   handled, before, arg, wetBefore>>

\* person.update(deltaTime)
PersonStep ==
    /\ pc = "person"
    /\ person' = PersonUpdate(person, deltaTime)
    /\ lastOp' = "update"
    /\ before' = person
    /\ arg' = NoArg
    /\ pc' = StageAfter("person")
    /\ UNCHANGED <<windowSize, windowOpen, deltaTime, drops, frame, keyEvents,
                   handled, dropsBefore, wetBefore>>

\* the collision pass
CollideStep ==
    /\ pc = "collide"
    /\ person' = CollisionPass(person, drops)
    /\ wetBefore' = person.totalWetness
    /\ lastOp' = "collide"
    /\ pc' = StageAfter("collide")
    /\ UNCHANGED <<windowSize, windowOpen, deltaTime, drops, frame, keyEvents,
                   handled, before, arg, dropsBefore>>

\* The condition of the empty if of line 329
UnderPlatform(p, ws) ==
    \/ Intersects(PlatformBounds(StartPlatformPosition(ws)), PersonBounds(p))
    \/ Intersects(PlatformBounds(EndPlatformPosition(ws)), PersonBounds(p))

\* Mutant: a platform check whose body takes back the frame's wetting of an
\* actor that stands below the height of the platforms
ShelterStep_KeepsDry ==
    /\ pc = "shelter"
    /\ person' = IF person.position[2] > StartPlatformPosition(windowSize)[2]
                 THEN [person EXCEPT !.totalWetness = wetBefore]
                 ELSE person
    /\ pc' = StageAfter("shelter")
    /\ UNCHANGED <<windowSize, windowOpen, deltaTime, drops, frame,
                   keyEvents, handled, lastOp, before, arg, dropsBefore, wetBefore>>

\* if (under a platform) { }
ShelterStep ==
    /\ pc = "shelter"
    /\ UnderPlatform(person, windowSize) \in BOOLEAN
    /\ pc' = StageAfter("shelter")
    /\ UNCHANGED <<windowSize, windowOpen, deltaTime, drops, person, frame,
                   keyEvents, handled, lastOp, before, arg, dropsBefore, wetBefore>>

\* clear, draw, display: person.draw calls updateColor
RenderStep ==
    /\ pc = "render"
    /\ person' = UpdateColor(person)
    /\ pc' = StageAfter("render")
    /\ UNCHANGED <<windowSize, windowOpen, deltaTime, drops, frame, keyEvents,
                   handled, lastOp, before, arg, dropsBefore, wetBefore>>

Next ==
    \/ FontLoaded
    \/ FontMissing
    \/ FrameStart
    \/ LoopExit
    \/ HandleClose
    \/ HandleW
    \/ HandleR
    \/ EventsDone
    \/ RainStep
    \/ PersonStep
    \/ CollideStep
    \/ ShelterStep
    \/ RenderStep

Spec == Init /\ [][Next]_vars

---------------------------------------------------------------------------
(* A Person driven through its public methods in any order, as a caller    *)
(* other than main may drive it.                                           *)

\* Positions in px whose pairwise distances (63, 84, 105) are whole: the
\* sides of a right triangle, one side horizontal, one vertical, one diagonal.
Points == {<<0, 0>>, <<63, 0>>, <<63, 84>>}

Speeds == {WALK_SPEED, RUN_SPEED}

\* Frame times in ticks for the driven Person
CallTimes == FrameTimes \cup {1}

\* The areas of the smallest and of the largest drop
Areas == {GetArea(Raindrop(0, 0, RAINDROP_MIN_SIZE)), GetArea(Raindrop(0, 0, RAINDROP_MAX_SIZE))}

\* The wetness of a Person after as many addWetness calls with the largest
\* area as stay at or below MAX_WETNESS
Soaked ==
    LET largest == GetArea(Raindrop(0, 0, RAINDROP_MAX_SIZE))
    IN  ((MAX_WETNESS * AreaUnit) \div largest) * largest

\* The wetness of a Person after as many addWetness calls with the largest
\* area as stay at or below half of MAX_WETNESS
HalfSoaked ==
    LET largest == GetArea(Raindrop(0, 0, RAINDROP_MAX_SIZE))
    IN  ((MAX_WETNESS * AreaUnit) \div (2 * largest)) * largest

\* The model makes at most MaxAdds addWetness calls from a dry Person, from a
\* half soaked one and from a soaked one.
MayAdd(wetness) ==
    LET largest == GetArea(Raindrop(0, 0, RAINDROP_MAX_SIZE))
    IN  \/ wetness < MaxAdds * largest
        \/ wetness >= HalfSoaked /\ wetness < HalfSoaked + MaxAdds * largest
        \/ wetness >= Soaked /\ wetness < Soaked + MaxAdds * largest

\* A Person just constructed, or constructed and then soaked by addWetness
PersonInit ==
    /\ windowSize \in ViewportSizes
    /\ windowOpen = TRUE
    /\ pc = "calls"
    /\ deltaTime = 0
    /\ drops = EmptyBag
    /\ \E position \in Points, wetness \in {0, Soaked} :
          /\ person = [NewPerson(position) EXCEPT !.totalWetness = wetness]
          /\ before = [NewPerson(position) EXCEPT !.totalWetness = wetness]
    /\ frame = 0
    /\ keyEvents = 0
    /\ handled = <<>>
    /\ lastOp = "Person"
    /\ arg = NoArg
    /\ dropsBefore = EmptyBag
    /\ wetBefore = 0

CallStartMove ==
    /\ pc = "calls"
    /\ \E target \in Points, speed \in Speeds :
          /\ person' = StartMove(person, target, speed)
          /\ arg' = [NoArg EXCEPT !.target = target, !.speed = speed]
    /\ lastOp' = "startMove"
    /\ before' = person
    /\ UNCHANGED <<windowSize, windowOpen, pc, deltaTime, drops, frame, keyEvents,
                   handled, dropsBefore, wetBefore>>

CallReset ==
    /\ pc = "calls"
    /\ \E position \in Points :
          /\ person' = Reset(person, position)
          /\ arg' = [NoArg EXCEPT !.position = position]
    /\ lastOp' = "reset"
    /\ before' = person
    /\ UNCHANGED <<windowSize, windowOpen, pc, deltaTime, drops, frame, keyEvents,
                   handled, dropsBefore, wetBefore>>

CallUpdate ==
    /\ pc = "calls"
    /\ \E dt \in CallTimes :
          /\ person' = PersonUpdate(person, dt)
          /\ deltaTime' = dt
    /\ lastOp' = "update"
    /\ before' = person
    /\ arg' = NoArg
    /\ UNCHANGED <<windowSize, windowOpen, pc, drops, frame, keyEvents,
                   handled, dropsBefore, wetBefore>>

CallAddWetness ==
    /\ pc = "calls"
    /\ MayAdd(person.totalWetness)
    /\ \E area \in Areas :
          /\ person' = AddWetness(person, area)
          /\ arg' = [NoArg EXCEPT !.area = area]
    /\ lastOp' = "addWetness"
    /\ before' = person
    /\ UNCHANGED <<windowSize, windowOpen, pc, deltaTime, drops, frame, keyEvents,
                   handled, dropsBefore, wetBefore>>

PersonNext ==
    \/ CallStartMove
    \/ CallReset
    \/ CallUpdate
    \/ CallAddWetness

PersonSpec == PersonInit /\ [][PersonNext]_vars

---------------------------------------------------------------------------
(* Properties of Person, checked under PersonSpec *)

\* The vector from the actor's position to its target at the entry of the
\* last call, and its squared length
ToTarget == <<before.targetPosition[1] - before.position[1],
              before.targetPosition[2] - before.position[2]>>
ToTargetSq == ToTarget[1] * ToTarget[1] + ToTarget[2] * ToTarget[2]

\* The displacement the last call made
Moved == <<person.position[1] - before.position[1],
           person.position[2] - before.position[2]>>

\* C1: startMove called while the actor is moving changes nothing: target and
\* speed of the earlier startMove, position, wetness and is-moving stay as
\* they were; called while it is not moving, it sets target and speed, marks
\* the actor moving and changes nothing else.
C1_StartMoveOnlyWhenIdle ==
    lastOp = "startMove" =>
        IF before.isMoving
        THEN person = before
        ELSE person = [before EXCEPT !.targetPosition = arg.target,
                                     !.currentSpeed = arg.speed,
                                     !.isMoving = TRUE]

\* A startMove with another target or speed arrived during a move.
C1_Witness ==
    /\ lastOp = "startMove"
    /\ before.isMoving
    /\ arg.target # before.targetPosition
    /\ arg.speed # before.currentSpeed

\* C3: an update entered while moving at distance >= 5 from the target
\* displaces the position by a vector parallel to target - position, pointing
\* the same way, of length exactly speed * dt, and leaves is-moving true and
\* target, speed and wetness unchanged; so update clears is-moving only when
\* entered at a distance below 5.
C3_StepAlongUnitVector ==
    (lastOp = "update" /\ before.isMoving /\ ToTargetSq >= 5 * 5) =>
        /\ Moved[1] * ToTarget[2] = Moved[2] * ToTarget[1]
        /\ Moved[1] * ToTarget[1] + Moved[2] * ToTarget[2] >= 0
        /\ (Moved[1] * Moved[1] + Moved[2] * Moved[2]) * TicksPerSecond * TicksPerSecond
              = (before.currentSpeed * deltaTime) * (before.currentSpeed * deltaTime)
        /\ person = [before EXCEPT !.position = person.position]
        /\ person.isMoving

\* An update with dt > 0 stepped along the diagonal.
C3_Witness ==
    /\ lastOp = "update"
    /\ before.isMoving
    /\ ToTargetSq >= 5 * 5
    /\ ToTarget[1] # 0 /\ ToTarget[2] # 0
    /\ deltaTime > 0
    /\ Moved # <<0, 0>>

\* C4: an update entered while moving at distance < 5 from the target (0
\* included) clears is-moving and puts the position on the target in that one
\* call, with no speed * dt step and nothing else changed; at distance 0 the
\* position does not change.  Whenever update clears is-moving, the position
\* is the target.
C4_SnapWithinThreshold ==
    (lastOp = "update" /\ before.isMoving) =>
        /\ ToTargetSq < 5 * 5 =>
              person = [before EXCEPT !.isMoving = FALSE,
                                      !.position = before.targetPosition]
        /\ ToTargetSq = 0 => person.position = before.position
        /\ ~person.isMoving => person.position = person.targetPosition

\* An update with dt > 0 snapped the actor over a distance between 0 and 5.
C4_Witness ==
    /\ lastOp = "update"
    /\ before.isMoving
    /\ ToTargetSq > 0 /\ ToTargetSq < 5 * 5
    /\ deltaTime > 0
    /\ ~person.isMoving
    /\ person.position # before.position

\* C6: the wetness is never negative; startMove and update leave it as it
\* was; addWetness adds exactly the area, also beyond MAX_WETNESS; reset sets
\* it to 0, and is the only call after which it is lower than before.
C6_WetnessAccumulates ==
    /\ person.totalWetness >= 0
    /\ lastOp \in {"startMove", "update"} => person.totalWetness = before.totalWetness
    /\ lastOp = "addWetness" => person.totalWetness = before.totalWetness + arg.area
    /\ lastOp = "reset" => person.totalWetness = 0
    /\ person.totalWetness < before.totalWetness => lastOp = "reset"

\* An addWetness took the wetness from at most MAX_WETNESS to above it.
C6_Witness ==
    /\ lastOp = "addWetness"
    /\ before.totalWetness <= MAX_WETNESS * AreaUnit
    /\ person.totalWetness > MAX_WETNESS * AreaUnit

\* C7: after reset(P), from any state, the wetness is 0, the actor is not
\* moving and is at P; and a second reset(P) made now would leave the whole
\* actor state as it is.
C7_ResetIdempotent ==
    lastOp = "reset" =>
        /\ person.totalWetness = 0
        /\ ~person.isMoving
        /\ person.position = arg.position
        /\ Reset(person, arg.position) = person

\* A reset arrived during a move, with the actor wet and away from P.
C7_Witness ==
    /\ lastOp = "reset"
    /\ before.isMoving
    /\ before.totalWetness > 0
    /\ before.position # arg.position

---------------------------------------------------------------------------
(* Properties of the frame loop and of RainSystem, checked under Spec *)

\* The W and R codes handled in the current frame, in order
Triggers == SelectSeq(handled, LAMBDA k : k \in {"W", "R"})

\* The actor right after a trigger of the given speed
AfterTrigger(speed) ==
    /\ person.position = <<windowSize[1] \div 8, windowSize[2] - 250 - 150>>
    /\ person.totalWetness = 0
    /\ person.isMoving
    /\ person.targetPosition = <<(windowSize[1] * 7) \div 8, windowSize[2] - 250 - 150>>
    /\ person.currentSpeed = speed

\* C2: right after a W or R trigger is handled, whatever the actor's state
\* was, the actor is at the start position with wetness 0, moving to the end
\* position at WALK_SPEED for W and RUN_SPEED for R; when the events of a
\* frame have been handled, the last trigger among them decides the speed.
C2_TriggerResetsAndStarts ==
    /\ lastOp = "W" => AfterTrigger(WALK_SPEED)
    /\ lastOp = "R" => AfterTrigger(RUN_SPEED)
    /\ (pc \in {"events", "rain"} /\ Triggers # <<>>) =>
          AfterTrigger(IF Triggers[Len(Triggers)] = "W" THEN WALK_SPEED ELSE RUN_SPEED)

\* R was handled while the actor was walking, wet and away from the start.
C2_Witness ==
    /\ lastOp = "R"
    /\ before.isMoving
    /\ before.currentSpeed = WALK_SPEED
    /\ before.totalWetness > 0
    /\ before.position # person.position

\* The drop's rectangle [x, x + size] x [y, y + 2 size] and the actor's
\* 40 x 100 rectangle centred on its position share interior points.
Overlaps(d, p) ==
    /\ d.x < (p.position[1] + 20) * SubPx
    /\ d.x + d.size > (p.position[1] - 20) * SubPx
    /\ d.y < (p.position[2] + 50) * SubPx
    /\ d.y + 2 * d.size > (p.position[2] - 50) * SubPx

RECURSIVE SumAreas(_, _)
\* The sum of width x height over the drops of bag b whose kind is in S
SumAreas(b, S) ==
    IF S = {} THEN 0
    ELSE LET d == CHOOSE e \in S : TRUE
         IN  b[d] * (d.size * 2 * d.size) + SumAreas(b, S \ {d})

\* C5: after a frame's collision pass the wetness is the wetness before the
\* pass plus the sum of width x height of the live drops whose bounds
\* intersect the actor's bounds, each counted once; the other drops add
\* nothing; every frame's pass counts the drops that overlap in that frame.
C5_WetnessGrowsBySumOfAreas ==
    pc = "shelter" =>
        person.totalWetness =
            wetBefore + SumAreas(drops, {d \in DOMAIN drops : Overlaps(d, person)})

\* A pass on an actor already wet counted drops of two sizes and left out
\* other live drops.
C5_Witness ==
    /\ pc = "shelter"
    /\ wetBefore > 0
    /\ \E d1, d2 \in DOMAIN drops :
          d1.size # d2.size /\ Overlaps(d1, person) /\ Overlaps(d2, person)
    /\ \E d \in DOMAIN drops : ~Overlaps(d, person)
    /\ person.totalWetness > wetBefore

\* The drop d after the integration step of the last RainSystem::update
Fallen(d) ==
    [d EXCEPT !.vy = d.vy + GRAVITY * deltaTime,
              !.y = d.y + (d.vy + GRAVITY * deltaTime) * deltaTime]

BelowViewport(d) == d.y > windowSize[2] * SubPx

\* x strictly within 100 px of either platform's centre, y strictly within
\* 25 px of the platforms' centre height
InPlatformWindow(d) ==
    /\ \/ /\ 8 * d.x > (windowSize[1] - 800) * SubPx
          /\ 8 * d.x < (windowSize[1] + 800) * SubPx
       \/ /\ 8 * d.x > (7 * windowSize[1] - 800) * SubPx
          /\ 8 * d.x < (7 * windowSize[1] + 800) * SubPx
    /\ d.y > (windowSize[2] - 275) * SubPx
    /\ d.y < (windowSize[2] - 225) * SubPx

\* C8: when RainSystem::update returns, a drop that was live at its entry and
\* is below the viewport (y > height) before or after the integration step is
\* not live, and a drop whose integrated y is <= height is live unless it is
\* in a platform window.
C8_OffScreenDropsRemoved ==
    lastOp = "RainSystem::update" =>
        \A d \in DOMAIN dropsBefore :
            /\ (BelowViewport(d) \/ BelowViewport(Fallen(d))) =>
                  Fallen(d) \notin DOMAIN drops
            /\ (~BelowViewport(Fallen(d)) /\ ~InPlatformWindow(Fallen(d))) =>
                  Fallen(d) \in DOMAIN drops

\* An update removed drops that fell below the viewport and kept others.
C8_Witness ==
    /\ lastOp = "RainSystem::update"
    /\ \E d \in DOMAIN dropsBefore : BelowViewport(Fallen(d))
    /\ \E d \in DOMAIN dropsBefore :
          ~BelowViewport(Fallen(d)) /\ Fallen(d) \in DOMAIN drops

\* C9: when RainSystem::update returns, a drop that was live at its entry and
\* whose integrated position is in the window of either platform is not live.
C9_PlatformDropsRemoved ==
    lastOp = "RainSystem::update" =>
        \A d \in DOMAIN dropsBefore :
            InPlatformWindow(Fallen(d)) => Fallen(d) \notin DOMAIN drops

\* An update removed drops in the window of the end platform.
C9_Witness ==
    /\ lastOp = "RainSystem::update"
    /\ \E d \in DOMAIN dropsBefore :
          InPlatformWindow(Fallen(d)) /\ 2 * Fallen(d).x > windowSize[1] * SubPx

\* The number of drops of dropsBefore the last update removed
Removed ==
    SumCounts(dropsBefore, {d \in DOMAIN dropsBefore :
                              BelowViewport(Fallen(d)) \/ InPlatformWindow(Fallen(d))})

\* C10: when RainSystem::update returns, the number of live drops is the
\* number at its entry, less the drops removed, plus RAINDROP_SPAWN_RATE,
\* whatever dt and the population are; and every drop live at the entry that
\* is neither below the viewport nor in a platform window after the
\* integration step is live.
C10_SpawnsRateEveryCall ==
    lastOp = "RainSystem::update" =>
        /\ Size(drops) = Size(dropsBefore) - Removed + RAINDROP_SPAWN_RATE
        /\ \A d \in DOMAIN dropsBefore :
              (~BelowViewport(Fallen(d)) /\ ~InPlatformWindow(Fallen(d))) =>
                  /\ Fallen(d) \in DOMAIN drops
                  /\ drops[Fallen(d)] >= dropsBefore[d]

\* An update of a population of at least twice the rate removed some drops,
\* kept the others and spawned.
C10_Witness ==
    /\ lastOp = "RainSystem::update"
    /\ Size(dropsBefore) >= 2 * RAINDROP_SPAWN_RATE
    /\ Removed > 0
    /\ Size(drops) > Size(dropsBefore) - Removed

---------------------------------------------------------------------------
(* Properties of the frame's order, checked under Spec *)

\* The steps of main in the order the program takes them
FrameOrder ==
    { <<"font", "loop">>, <<"font", "failed">>, <<"loop", "events">>,
      <<"loop", "exit">>, <<"events", "rain">>, <<"rain", "person">>,
      <<"person", "collide">>, <<"collide", "shelter">>,
      <<"shelter", "render">>, <<"render", "loop">> }

\* C11 as stated: the steps of a frame run in the order events,
\* RainSystem::update, Person::update, collision pass, render; the collision
\* pass adds the areas of the drops that overlap the actor as both are after
\* their updates of that frame; and the wetness changes in the collision pass
\* only.
C11_WetnessOnlyInCollision ==
    [][ /\ pc' # pc => <<pc, pc'>> \in FrameOrder
        /\ pc = "collide" =>
              person'.totalWetness = person.totalWetness
                  + SumAreas(drops, {d \in DOMAIN drops : Overlaps(d, person)})
        /\ person'.totalWetness # person.totalWetness => pc = "collide" ]_vars

\* C11 as amended: the same order and the same collision pass; the wetness
\* changes in the collision pass and, to 0, when the events step handles a W
\* or R trigger, and nowhere else.
C11_FrameOrder ==
    [][ /\ pc' # pc => <<pc, pc'>> \in FrameOrder
        /\ pc = "collide" =>
              /\ lastOp = "update"
              /\ person'.totalWetness = person.totalWetness
                  + SumAreas(drops, {d \in DOMAIN drops : Overlaps(d, person)})
        /\ person'.totalWetness # person.totalWetness =>
              \/ pc = "collide"
              \/ pc = "events" /\ lastOp' \in {"W", "R"} /\ person'.totalWetness = 0 ]_vars

\* A collision pass wetted an actor that person.update had just moved under
\* drops it did not overlap before the move.
C11_Witness ==
    /\ pc = "shelter"
    /\ deltaTime > 0
    /\ before.isMoving
    /\ before.position # person.position
    /\ person.totalWetness > wetBefore
    /\ \A d \in DOMAIN drops : ~Overlaps(d, before)

---------------------------------------------------------------------------
(* A Person that is wetted, reset and drawn in any order: the colour of its *)
(* shape as a function of its wetness.                                      *)

\* A Person just constructed, or constructed and then wetted by addWetness to
\* just below half of MAX_WETNESS or to just below MAX_WETNESS
ColorInit ==
    /\ windowSize \in ViewportSizes
    /\ windowOpen = TRUE
    /\ pc = "calls"
    /\ deltaTime = 0
    /\ drops = EmptyBag
    /\ \E position \in Points, wetness \in {0, HalfSoaked, Soaked} :
          /\ person = [NewPerson(position) EXCEPT !.totalWetness = wetness]
          /\ before = [NewPerson(position) EXCEPT !.totalWetness = wetness]
    /\ frame = 0
    /\ keyEvents = 0
    /\ handled = <<>>
    /\ lastOp = "Person"
    /\ arg = NoArg
    /\ dropsBefore = EmptyBag
    /\ wetBefore = 0

\* person.draw(window): updateColor, then window.draw(shape)
CallDraw ==
    /\ pc = "calls"
    /\ person' = UpdateColor(person)
    /\ lastOp' = "draw"
    /\ before' = person
    /\ arg' = NoArg
    /\ UNCHANGED <<windowSize, windowOpen, pc, deltaTime, drops, frame, keyEvents,
                   handled, dropsBefore, wetBefore>>

ColorNext ==
    \/ CallAddWetness
    \/ CallReset
    \/ CallDraw

ColorSpec == ColorInit /\ [][ColorNext]_vars

\* The colour of a dry actor and of a fully wet one
DryColor == <<139, 69, 19>>
WetColor == <<173, 216, 230>>

\* C12: the colour a draw gives is the blend of the dry and the wet colour
\* with the factor min(wetness, MAX_WETNESS) / MAX_WETNESS, each channel
\* truncated to a whole value: the dry colour at wetness 0, the wet colour at
\* every wetness at or above MAX_WETNESS, and no channel ever outside the
\* range between its dry and its wet value.
C12_ColourSaturates ==
    lastOp = "draw" =>
        LET w == Min(person.totalWetness, MAX_WETNESS * AreaUnit)
            c == person.fillColor
        IN  /\ person.totalWetness = before.totalWetness
            /\ person.totalWetness = 0 => c = DryColor
            /\ person.totalWetness >= MAX_WETNESS * AreaUnit => c = WetColor
            /\ \A i \in 1..3 :
                  /\ DryColor[i] <= c[i]
                  /\ c[i] <= WetColor[i]
                  /\ (c[i] - DryColor[i]) * (MAX_WETNESS * AreaUnit)
                         <= w * (WetColor[i] - DryColor[i])
                  /\ c[i] < WetColor[i] =>
                        w * (WetColor[i] - DryColor[i])
                           < (c[i] - DryColor[i] + 1) * (MAX_WETNESS * AreaUnit)

\* A draw turned an actor whose wetness is above MAX_WETNESS from the dry
\* colour to the wet colour.
C12_Witness ==
    /\ lastOp = "draw"
    /\ before.totalWetness > MAX_WETNESS * AreaUnit
    /\ before.fillColor = DryColor
    /\ person.fillColor # DryColor

\* C13: at a wetness of exactly half of MAX_WETNESS the colour a draw gives
\* has, in each channel, the value (dry + wet) / 2 converted to a channel
\* value, that is truncated: 156, 142 (from 142.5) and 124 (from 124.5).
C13_HalfWetMidpoint ==
    (lastOp = "draw" /\ 2 * person.totalWetness = MAX_WETNESS * AreaUnit) =>
        \A i \in 1..3 : person.fillColor[i] = (DryColor[i] + WetColor[i]) \div 2

\* A draw recoloured an actor whose wetness is exactly half of MAX_WETNESS.
C13_Witness ==
    /\ lastOp = "draw"
    /\ 2 * before.totalWetness = MAX_WETNESS * AreaUnit
    /\ before.fillColor # person.fillColor

---------------------------------------------------------------------------
(* One Raindrop updated again and again with one fixed frame time *)

\* Frame times in ticks for the drop updated alone
DropTimes == FrameTimes \cup {1, 3}

\* A drop just constructed and the frame time of all its updates
DropInit ==
    /\ windowSize \in ViewportSizes
    /\ windowOpen = TRUE
    /\ pc = "drop"
    /\ deltaTime \in DropTimes
    /\ \E d \in {HighDrop(windowSize), LowDrop(windowSize),
                 MidDrop(windowSize), EndDrop(windowSize)} :
          /\ CanSpawn(d, windowSize)
          /\ drops = SetToBag({d})
          /\ dropsBefore = SetToBag({d})
    /\ person = NewPerson(InitialPosition(windowSize))
    /\ before = NewPerson(InitialPosition(windowSize))
    /\ frame = 0
    /\ keyEvents = 0
    /\ handled = <<>>
    /\ lastOp = "Raindrop"
    /\ arg = NoArg
    /\ wetBefore = 0

\* drop.update(deltaTime); frame counts the calls
DropStep ==
    /\ pc = "drop"
    /\ frame < MaxSteps
    /\ drops' = UpdateAll(drops, deltaTime)
    /\ frame' = frame + 1
    /\ lastOp' = "Raindrop::update"
    /\ UNCHANGED <<windowSize, windowOpen, pc, deltaTime, person, keyEvents,
                   handled, before, arg, dropsBefore, wetBefore>>

DropNext == DropStep

DropSpec == DropInit /\ [][DropNext]_vars

RECURSIVE SumOfVelocities(_, _)
\* The sum over i = 1..n of the vertical velocity i * GRAVITY * dt
SumOfVelocities(n, dt) ==
    IF n = 0 THEN 0 ELSE n * GRAVITY * dt + SumOfVelocities(n - 1, dt)

\* C14: a drop that starts at rest at y0 has, after N updates with the fixed
\* frame time dt, the vertical velocity N * GRAVITY * dt and the vertical
\* position y0 plus the sum over i = 1..N of (velocity after step i) * dt;
\* its size, its x and its horizontal velocity are as constructed.
C14_VelocityBeforePosition ==
    pc = "drop" =>
        \A d \in DOMAIN drops, d0 \in DOMAIN dropsBefore :
            /\ d.vy = frame * GRAVITY * deltaTime
            /\ d.y = d0.y + SumOfVelocities(frame, deltaTime) * deltaTime
            /\ d.x = d0.x /\ d.vx = 0 /\ d.size = d0.size

\* A drop has been updated at least three times with a positive frame time.
C14_Witness ==
    /\ pc = "drop"
    /\ lastOp = "Raindrop::update"
    /\ frame >= 3
    /\ deltaTime > 0
    /\ \E d \in DOMAIN drops : d.vy > 0

---------------------------------------------------------------------------
(* Properties of the drops' fall, checked under Spec *)

\* x strictly within 100 px of either platform's centre
InPlatformColumn(d) ==
    \/ /\ 8 * d.x > (windowSize[1] - 800) * SubPx
       /\ 8 * d.x < (windowSize[1] + 800) * SubPx
    \/ /\ 8 * d.x > (7 * windowSize[1] - 800) * SubPx
       /\ 8 * d.x < (7 * windowSize[1] + 800) * SubPx

\* C15: a platform absorbs every drop that falls onto it: no live drop whose
\* x is within 100 px of a platform's centre is below the platform's bottom
\* edge (y > height - 250 + 25), whatever the frame times are.
C15_PlatformAbsorbs ==
    \A d \in DOMAIN drops :
        InPlatformColumn(d) => d.y <= (windowSize[2] - 250 + 25) * SubPx

\* A drop as the constructor can make it: at rest, on the spawn band
\* -100 <= y < -50, with a size between the two bounds
IsFresh(d) ==
    /\ d.vx = 0 /\ d.vy = 0
    /\ d.y >= -100 * SubPx /\ d.y < -50 * SubPx
    /\ d.size >= RAINDROP_MIN_SIZE /\ d.size <= RAINDROP_MAX_SIZE

\* C17: every live drop has horizontal velocity 0 and a vertical velocity
\* that is not negative; when RainSystem::update returns, every live drop is
\* fresh or is a drop live at the entry with the same x and size, a vertical
\* velocity greater by GRAVITY * dt, hence not smaller, and a y not smaller.
C17_DropsFallStraight ==
    /\ \A d \in DOMAIN drops : d.vx = 0 /\ d.vy >= 0 /\ d.y >= -100 * SubPx
    /\ lastOp = "RainSystem::update" =>
          \A e \in DOMAIN drops :
              \/ IsFresh(e)
              \/ \E d \in DOMAIN dropsBefore :
                    /\ e.x = d.x /\ e.size = d.size /\ e.vx = d.vx
                    /\ e.vy = d.vy + GRAVITY * deltaTime
                    /\ e.vy >= d.vy
                    /\ e.y >= d.y

\* An update with a positive frame time left live a drop that was already
\* falling: same x, faster and lower.
C17_Witness ==
    /\ lastOp = "RainSystem::update"
    /\ deltaTime > 0
    /\ \E e \in DOMAIN drops, d \in DOMAIN dropsBefore :
          /\ d.vy > 0
          /\ e.x = d.x /\ e.size = d.size
          /\ e.vy > d.vy
          /\ e.y > d.y

---------------------------------------------------------------------------
(* A Person whose moves are started and then updated frame after frame with *)
(* positive frame times, and never reset.                                   *)

\* person.update(deltaTime) in a frame that took some time
CallUpdateLater ==
    /\ CallUpdate
    /\ deltaTime' > 0

MoveNext ==
    \/ CallStartMove
    \/ CallUpdateLater

\* Frames keep occurring: the loop of main calls person.update in every frame
MoveSpec == PersonInit /\ [][MoveNext]_vars /\ WF_vars(CallUpdateLater)

\* C16: every started move completes: while frames keep occurring with
\* dt > 0 and no reset intervenes, a moving actor eventually is not moving
\* and is at its target, whatever the target, the speed and the frame times.
C16_MoveCompletes ==
    [](person.isMoving => <>(~person.isMoving /\ person.position = person.targetPosition))

\* C20: an update of a moving actor never takes it past its target: the new
\* position is not beyond the target as seen from the old position, and its
\* distance to the target is not larger than the old one.
C20_NeverPassesTarget ==
    (lastOp = "update" /\ before.isMoving) =>
        LET new == <<before.targetPosition[1] - person.position[1],
                     before.targetPosition[2] - person.position[2]>>
        IN  /\ ToTarget[1] * new[1] + ToTarget[2] * new[2] >= 0
            /\ new[1] * new[1] + new[2] * new[2] <= ToTargetSq

---------------------------------------------------------------------------
(* Properties of the platform check, checked under Spec *)

---------------------------------------------------------------------------
(* The frame loop on viewports of any height *)

\* A viewport so low that the platforms' height, 250 px above the bottom, is
\* on the band where drops spawn
LowViewportSizes == {<<640, 200>>}

ViewportInit ==
    /\ windowSize \in ViewportSizes \cup LowViewportSizes
    /\ windowOpen = TRUE
    /\ pc = "font"
    /\ deltaTime = 0
    /\ drops = EmptyBag
    /\ person = NewPerson(InitialPosition(windowSize))
    /\ frame = 0
    /\ keyEvents = 0
    /\ handled = <<>>
    /\ lastOp = "Person"
    /\ before = NewPerson(InitialPosition(windowSize))
    /\ arg = NoArg
    /\ dropsBefore = EmptyBag
    /\ wetBefore = 0

ViewportSpec == ViewportInit /\ [][Next]_vars

\* C19 as stated: when RainSystem::update returns, on every viewport, no live
\* drop is below the viewport or in a platform window, the drops the call
\* has just spawned included.
C19_NoDeadDropLive ==
    lastOp = "RainSystem::update" =>
        \A d \in DOMAIN drops : ~BelowViewport(d) /\ ~InPlatformWindow(d)

\* C19 as amended: the same on every viewport at least 225 px high, where
\* the platform windows (y > height - 275) are below the spawn band (y < -50).
C19_NoDeadDropLiveOnHighViewport ==
    (lastOp = "RainSystem::update" /\ windowSize[2] >= 225) =>
        \A d \in DOMAIN drops : ~BelowViewport(d) /\ ~InPlatformWindow(d)

\* On a viewport at least 225 px high an update removed drops, left others
\* live and spawned.
C19_Witness ==
    /\ lastOp = "RainSystem::update"
    /\ windowSize[2] >= 225
    /\ Removed > 0
    /\ \E d \in DOMAIN drops : IsFresh(d)
    /\ \E d \in DOMAIN drops : d.vy > 0

=============================================================================
